---- MODULE Spec2Model ----
(***************************************************************************)
(* A model of linkChecker.py: the navigability filter and link extraction  *)
(* (is_http_url, extract_links), the HEAD-then-GET probe (check_link) and  *)
(* the orchestration in main.                                              *)
(*                                                                         *)
(* Strings are sequences of tokens.  The tokens form a prefix-free code    *)
(* (no token is a prefix of another), so a token sequence denotes exactly  *)
(* one string and the code-point order of two strings is the lexicographic *)
(* order of their token sequences under Rank.                              *)
(***************************************************************************)
EXTENDS Integers, Sequences, FiniteSets, TLC

VARIABLES
    pc,            \* position of main / extract_links / check_link
    no_js,         \* args.no_js
    doc,           \* hrefs of the <a href> elements iterated so far (html)
    link_set,      \* extract_links: links (a set)
    raw_count,     \* extract_links: raw_count
    raw_href,      \* extract_links: raw_href of the current anchor
    links,         \* main: links (sorted list returned by extract_links)
    total,         \* main: total
    i,             \* main: loop index of enumerate(links, start=1)
    is_broken,     \* main: is_broken returned by check_link
    info,          \* main: info returned by check_link
    broken_links,  \* main: broken_links
    reqs,          \* requests issued by the current check_link call, with their outcomes
    page,          \* outcome of obtaining the page HTML
    exit_status,   \* process exit status, NoExit while running
    out            \* lines printed on standard output

vars == <<pc, no_js, doc, link_set, raw_count, raw_href, links, total, i,
          is_broken, info, broken_links, reqs, page, exit_status, out>>

(***************************************************************************)
(* Bounds and input sets                                                   *)
(***************************************************************************)
MaxAnchors == 2

NoExit == 0 - 1

\* tokens in ascending code-point order of their first character
AlphabetSeq == <<" ", "#", "/", ":", "[", "data", "http", "javascript", "mailto", "s", "tel", "x">>

Rank(t) == CHOOSE k \in 1..Len(AlphabetSeq) : AlphabetSeq[k] = t

\* tokens made of ASCII letters only (str.isalpha, scheme_chars)
Words == {"data", "http", "javascript", "mailto", "s", "tel", "x"}

\* args.url: "http://x/x"
BaseUrl == <<"http", ":", "/", "/", "x", "/", "x">>

Lead == {<<>>, <<" ">>}

Prefix == {<<>>, <<"#">>, <<"mailto", ":">>, <<"tel", ":">>, <<"javascript", ":">>,
           <<"data", ":">>, <<"http", ":">>, <<"http", "s", ":">>, <<"/">>, <<"/", "/">>,
           <<"http", ":", "/", "/">>}

Rest == {<<>>, <<"x">>, <<"[">>, <<"x", "/", "x">>}

\* href attribute values a document may carry
Hrefs == {l \o p \o r : l \in Lead, p \in Prefix, r \in Rest}

\* href attribute values of the pages given to main
MainHrefs == {<<"x">>, <<"/", "x">>, <<"/">>, <<"x", "/", "x">>, <<"#">>, <<" ">>,
              <<"/", "/", "[">>}

Statuses == {200, 304, 400, 403, 405, 500}

\* str(e) of a requests.RequestException raised by the transport
Messages == {"timed out", "connection refused"}

(***************************************************************************)
(* str methods                                                             *)
(***************************************************************************)
startswith(s, prefixes) ==
    \E p \in prefixes : Len(s) >= Len(p) /\ SubSeq(s, 1, Len(p)) = p

RECURSIVE lstrip(_)
lstrip(s) == IF s # <<>> /\ s[1] = " " THEN lstrip(Tail(s)) ELSE s

RECURSIVE rstrip(_)
rstrip(s) ==
    IF s # <<>> /\ s[Len(s)] = " " THEN rstrip(SubSeq(s, 1, Len(s) - 1)) ELSE s

strip(s) == rstrip(lstrip(s))

\* 1-based index of the first occurrence of token t at or after position from, 0 if none
find(s, t, from) ==
    IF \E k \in from..Len(s) : s[k] = t
    THEN CHOOSE k \in from..Len(s) : s[k] = t /\ \A m \in from..(k - 1) : s[m] # t
    ELSE 0

RECURSIVE split(_)
\* s.split('/')
split(s) ==
    LET k == find(s, "/", 1)
    IN  IF k = 0 THEN <<s>>
        ELSE <<SubSeq(s, 1, k - 1)>> \o split(SubSeq(s, k + 1, Len(s)))

RECURSIVE join(_)
\* '/'.join(segs)
join(segs) ==
    IF segs = <<>> THEN <<>>
    ELSE IF Len(segs) = 1 THEN segs[1]
    ELSE segs[1] \o <<"/">> \o join(Tail(segs))

RECURSIVE Str(_)
\* str(n) of a non-negative integer, one token per decimal digit
Str(n) ==
    LET digits == <<"0", "1", "2", "3", "4", "5", "6", "7", "8", "9">>
    IN  IF n < 10 THEN <<digits[n + 1]>>
        ELSE Str(n \div 10) \o <<digits[(n % 10) + 1]>>

(***************************************************************************)
(* urllib.parse (CPython 3.11), as called by is_http_url and extract_links: *)
(* urlsplit strips leading whitespace, reads a scheme of letters before    *)
(* the first ":", reads a netloc after "//" and raises ValueError on a     *)
(* netloc with an unmatched "[".  The alphabet has no "?", ";", "." or "]".*)
(***************************************************************************)
uses_relative == {<<>>, <<"http">>, <<"http", "s">>}

uses_netloc == {<<>>, <<"http">>, <<"http", "s">>}

\* urlparse(url, scheme): raises is ValueError("Invalid IPv6 URL")
urlparse(url, scheme) ==
    LET u1 == lstrip(url)
        c == find(u1, ":", 1)
        hasScheme == c > 1 /\ \A k \in 1..(c - 1) : u1[k] \in Words
        sch == IF hasScheme THEN SubSeq(u1, 1, c - 1) ELSE scheme
        u2 == IF hasScheme THEN SubSeq(u1, c + 1, Len(u1)) ELSE u1
        hasNetloc == startswith(u2, {<<"/", "/">>})
        d1 == find(u2, "/", 3)
        d2 == find(u2, "#", 3)
        delim == IF d1 = 0 /\ d2 = 0 THEN Len(u2) + 1
                 ELSE IF d1 = 0 THEN d2
                 ELSE IF d2 = 0 THEN d1
                 ELSE IF d1 < d2 THEN d1 ELSE d2
        netloc == IF hasNetloc THEN SubSeq(u2, 3, delim - 1) ELSE <<>>
        u3 == IF hasNetloc THEN SubSeq(u2, delim, Len(u2)) ELSE u2
        f == find(u3, "#", 1)
    IN  [raises |-> \E k \in 1..Len(netloc) : netloc[k] = "[",
         scheme |-> sch,
         netloc |-> netloc,
         path |-> IF f = 0 THEN u3 ELSE SubSeq(u3, 1, f - 1),
         fragment |-> IF f = 0 THEN <<>> ELSE SubSeq(u3, f + 1, Len(u3))]

urlunparse(scheme, netloc, path, fragment) ==
    LET u1 == IF netloc # <<>>
                 \/ (scheme # <<>> /\ scheme \in uses_netloc
                     /\ ~startswith(path, {<<"/", "/">>}))
              THEN <<"/", "/">> \o netloc
                   \o (IF path # <<>> /\ path[1] # "/" THEN <<"/">> \o path ELSE path)
              ELSE path
        u2 == IF scheme # <<>> THEN scheme \o <<":">> \o u1 ELSE u1
    IN  IF fragment # <<>> THEN u2 \o <<"#">> \o fragment ELSE u2

\* the part of bpath.split('/') that a relative path is resolved against
base_parts(bpath) ==
    IF split(bpath)[Len(split(bpath))] # <<>>
    THEN SubSeq(split(bpath), 1, Len(split(bpath)) - 1)
    ELSE split(bpath)

\* segments[1:-1] = filter(None, segments[1:-1])
filter_inner(segments) ==
    IF Len(segments) <= 2 THEN segments
    ELSE <<segments[1]>>
         \o SelectSeq(SubSeq(segments, 2, Len(segments) - 1), LAMBDA seg : seg # <<>>)
         \o <<segments[Len(segments)]>>

\* '/'.join(resolved_path) or '/'; the alphabet has no ".", so no dot segment is removed
resolved_path(bpath, path) ==
    IF startswith(path, {<<"/">>})
    THEN IF join(split(path)) = <<>> THEN <<"/">> ELSE join(split(path))
    ELSE IF join(filter_inner(base_parts(bpath) \o split(path))) = <<>> THEN <<"/">>
    ELSE join(filter_inner(base_parts(bpath) \o split(path)))

\* urljoin on the parsed base b and the parsed reference u of url
join_parsed(b, u, url) ==
    IF b.raises \/ u.raises THEN [raises |-> TRUE, value |-> <<>>]
    ELSE IF u.scheme # b.scheme \/ u.scheme \notin uses_relative
    THEN [raises |-> FALSE, value |-> url]
    ELSE IF u.scheme \in uses_netloc /\ u.netloc # <<>>
    THEN [raises |-> FALSE, value |-> urlunparse(u.scheme, u.netloc, u.path, u.fragment)]
    ELSE IF u.path = <<>>
    THEN [raises |-> FALSE, value |-> urlunparse(u.scheme, b.netloc, b.path, u.fragment)]
    ELSE [raises |-> FALSE,
          value |-> urlunparse(u.scheme, b.netloc, resolved_path(b.path, u.path),
                               u.fragment)]

urljoin(base, url) ==
    IF base = <<>> THEN [raises |-> FALSE, value |-> url]
    ELSE IF url = <<>> THEN [raises |-> FALSE, value |-> base]
    ELSE join_parsed(urlparse(base, <<>>), urlparse(url, urlparse(base, <<>>).scheme), url)

(***************************************************************************)
(* is_http_url                                                             *)
(***************************************************************************)
\* the prefix tuple of line 35 without "#"
ExcludedPrefixes_NoFragment ==
    {<<"mailto", ":">>, <<"tel", ":">>, <<"javascript", ":">>, <<"data", ":">>}

ExcludedPrefixes ==
    {<<"#">>, <<"mailto", ":">>, <<"tel", ":">>, <<"javascript", ":">>, <<"data", ":">>}

is_http_url(href0) ==
    IF href0 = <<>> THEN [raises |-> FALSE, value |-> FALSE]
    ELSE
    LET href == strip(href0)
        parsed == urlparse(href, <<>>)
    IN  IF parsed.raises THEN [raises |-> TRUE, value |-> FALSE]
        ELSE IF parsed.scheme \in {<<"http">>, <<"http", "s">>}
        THEN [raises |-> FALSE, value |-> TRUE]
        ELSE IF parsed.scheme = <<>> /\ ~startswith(href, ExcludedPrefixes)
        THEN [raises |-> FALSE, value |-> TRUE]
        ELSE [raises |-> FALSE, value |-> FALSE]

(***************************************************************************)
(* Output lines and transport outcomes                                     *)
(***************************************************************************)
Line(tag, n, m, url, text) == [tag |-> tag, n |-> n, m |-> m, url |-> url, text |-> text]

Msg(tag) == Line(tag, 0, 0, <<>>, <<>>)

\* a response carrying a status code, or a requests.RequestException
Response(code) == [status |-> code, error |-> ""]

Failure(msg) == [status |-> 0, error |-> msg]

Outcomes(codes) == {Response(c) : c \in codes} \cup {Failure(m) : m \in Messages}

PageStatuses == {200, 304, 404, 999}

NoPage == [kind |-> "none", status |-> 0, error |-> ""]

(***************************************************************************)
(* sorted(links): ascending code-point order                               *)
(***************************************************************************)
RECURSIVE LexLess(_, _)
LexLess(a, b) ==
    IF a = <<>> THEN b # <<>>
    ELSE IF b = <<>> THEN FALSE
    ELSE IF a[1] = b[1] THEN LexLess(Tail(a), Tail(b))
    ELSE Rank(a[1]) < Rank(b[1])

RECURSIVE sorted_descending(_)
\* sorted(links, reverse=True)
sorted_descending(S) ==
    IF S = {} THEN <<>>
    ELSE LET greatest == CHOOSE x \in S : \A y \in S \ {x} : LexLess(y, x)
         IN  <<greatest>> \o sorted_descending(S \ {greatest})

RECURSIVE sorted(_)
sorted(S) ==
    IF S = {} THEN <<>>
    ELSE LET least == CHOOSE x \in S : \A y \in S \ {x} : LexLess(x, y)
         IN  <<least>> \o sorted(S \ {least})

(***************************************************************************)
(* main, lines 113-135: obtaining the page HTML                            *)
(***************************************************************************)
\* resp.raise_for_status() raises requests.HTTPError
raise_for_status(code) == 400 <= code /\ code < 600

\* the state in which main calls extract_links(html, url), line 138
EnterExtract ==
    /\ pc' = "extract"
    /\ doc' = <<>>
    /\ link_set' = {}
    /\ raw_count' = 0
    /\ raw_href' = <<>>

FetchRaw ==
    /\ pc = "start"
    /\ no_js
    /\ \E o \in Outcomes(PageStatuses) :
        IF o.error # "" \/ raise_for_status(o.status)
        THEN /\ page' = [kind |-> "fetch_failed", status |-> o.status, error |-> o.error]
             /\ out' = out \o <<Msg("INFO_FETCH"), Msg("ERROR_FETCH")>>
             /\ pc' = "exit"
             /\ exit_status' = 1
             /\ UNCHANGED <<doc, link_set, raw_count, raw_href>>
        ELSE /\ page' = [kind |-> "fetched", status |-> o.status, error |-> ""]
             /\ out' = out \o <<Msg("INFO_FETCH"), Msg("INFO_EXTRACT")>>
             /\ EnterExtract
             /\ UNCHANGED exit_status
    /\ UNCHANGED <<no_js, links, total, i, is_broken, info, broken_links, reqs>>

Render ==
    /\ pc = "start"
    /\ ~no_js
    /\ \/ /\ \E m \in Messages :
               page' = [kind |-> "render_failed", status |-> 0, error |-> m]
          /\ out' = out \o <<Msg("INFO_RENDER"), Msg("ERROR_RENDER")>>
          /\ pc' = "exit"
          /\ exit_status' = 1
          /\ UNCHANGED <<doc, link_set, raw_count, raw_href>>
       \/ /\ page' = [kind |-> "rendered", status |-> 0, error |-> ""]
          /\ out' = out \o <<Msg("INFO_RENDER"), Msg("INFO_EXTRACT")>>
          /\ EnterExtract
          /\ UNCHANGED exit_status
    /\ UNCHANGED <<no_js, links, total, i, is_broken, info, broken_links, reqs>>

(***************************************************************************)
(* extract_links                                                           *)
(***************************************************************************)
\* one iteration of the loop over soup.find_all("a", href=True), lines 49-55
ExtractAnchor(H) ==
    /\ pc = "extract"
    /\ Len(doc) < MaxAnchors
    /\ \E h \in H :
        LET ok == is_http_url(h)
            abs_url == urljoin(BaseUrl, h)
        IN  /\ doc' = Append(doc, h)
            /\ raw_href' = h
            /\ raw_count' = raw_count + 1
            /\ IF ok.raises THEN pc' = "extract_raised" /\ UNCHANGED link_set
               ELSE IF ~ok.value THEN UNCHANGED <<pc, link_set>>
               ELSE IF abs_url.raises THEN pc' = "extract_raised" /\ UNCHANGED link_set
               ELSE link_set' = link_set \cup {abs_url.value} /\ UNCHANGED pc
    /\ UNCHANGED <<no_js, links, total, i, is_broken, info, broken_links, reqs, page,
                   exit_status, out>>

\* the end of the document: lines 57-59
ExtractReturn ==
    /\ pc = "extract"
    /\ out' = out \o <<Line("INFO_RAW", raw_count, 0, <<>>, <<>>),
                       Line("INFO_UNIQUE", Cardinality(link_set), 0, <<>>, <<>>)>>
    /\ links' = sorted(link_set)
    /\ pc' = "extracted"
    /\ UNCHANGED <<no_js, doc, link_set, raw_count, raw_href, total, i, is_broken, info,
                   broken_links, reqs, page, exit_status>>

\* an exception no handler catches ends the interpreter with status 1
Traceback ==
    /\ pc \in {"extract_raised", "check_raised"}
    /\ pc' = "exit"
    /\ exit_status' = 1
    /\ UNCHANGED <<no_js, doc, link_set, raw_count, raw_href, links, total, i, is_broken,
                   info, broken_links, reqs, page, out>>

(***************************************************************************)
(* main, lines 140-146                                                     *)
(***************************************************************************)
\* the frame of extract_links and html are dead once main resumes
LeaveExtract ==
    /\ doc' = <<>>
    /\ link_set' = {}
    /\ raw_count' = 0
    /\ raw_href' = <<>>

NoLinks ==
    /\ pc = "extracted"
    /\ links = <<>>
    /\ out' = Append(out, Msg("WARN_ZERO"))
    /\ pc' = "exit"
    /\ exit_status' = 0
    /\ LeaveExtract
    /\ UNCHANGED <<no_js, links, total, i, is_broken, info, broken_links, reqs, page>>

StartChecks ==
    /\ pc = "extracted"
    /\ links # <<>>
    /\ broken_links' = <<>>
    /\ total' = Len(links)
    /\ out' = Append(out, Line("INFO_START", Len(links), 0, <<>>, <<>>))
    /\ i' = 1
    /\ pc' = "loop"
    /\ LeaveExtract
    /\ UNCHANGED <<no_js, links, is_broken, info, reqs, page, exit_status>>

(***************************************************************************)
(* check_link                                                              *)
(***************************************************************************)
Description(code, method) == <<"HTTP", " ">> \o Str(code) \o <<" ", method>>

ErrorDescription(msg) == <<"Error:", " ", msg>>

\* check_head without the inner except clause: a failure of the HEAD propagates
check_head_uncaught(o) ==
    IF o.error # ""
    THEN [next |-> "raise", is_broken |-> FALSE, info |-> <<>>]
    ELSE IF o.status >= 400
    THEN [next |-> "return", is_broken |-> TRUE, info |-> Description(o.status, "(HEAD)")]
    ELSE IF o.status \in {405, 403}
    THEN [next |-> "get", is_broken |-> FALSE, info |-> <<>>]
    ELSE [next |-> "return", is_broken |-> FALSE, info |-> Description(o.status, "(HEAD)")]

\* check_head with the comparison code > 400
check_head_strict(o) ==
    IF o.error # ""
    THEN [next |-> "get", is_broken |-> FALSE, info |-> <<>>]
    ELSE IF o.status > 400
    THEN [next |-> "return", is_broken |-> TRUE, info |-> Description(o.status, "(HEAD)")]
    ELSE IF o.status \in {405, 403}
    THEN [next |-> "get", is_broken |-> FALSE, info |-> <<>>]
    ELSE [next |-> "return", is_broken |-> FALSE, info |-> Description(o.status, "(HEAD)")]

\* lines 82-90 on the outcome o of session.head: return a verdict or go on to the GET
check_head(o) ==
    IF o.error # ""
    THEN [next |-> "get", is_broken |-> FALSE, info |-> <<>>]
    ELSE IF o.status >= 400
    THEN [next |-> "return", is_broken |-> TRUE, info |-> Description(o.status, "(HEAD)")]
    ELSE IF o.status \in {405, 403}
    THEN [next |-> "get", is_broken |-> FALSE, info |-> <<>>]
    ELSE [next |-> "return", is_broken |-> FALSE, info |-> Description(o.status, "(HEAD)")]

\* check_get without the outer except clause: a failure of the GET propagates
check_get_uncaught(o) ==
    IF o.error # ""
    THEN [next |-> "raise", is_broken |-> FALSE, info |-> <<>>]
    ELSE IF o.status >= 400
    THEN [next |-> "return", is_broken |-> TRUE, info |-> Description(o.status, "(GET)")]
    ELSE [next |-> "return", is_broken |-> FALSE, info |-> Description(o.status, "(GET)")]

\* check_get with the comparison code > 400
check_get_strict(o) ==
    IF o.error # ""
    THEN [next |-> "return", is_broken |-> TRUE, info |-> ErrorDescription(o.error)]
    ELSE IF o.status > 400
    THEN [next |-> "return", is_broken |-> TRUE, info |-> Description(o.status, "(GET)")]
    ELSE [next |-> "return", is_broken |-> FALSE, info |-> Description(o.status, "(GET)")]

\* lines 91-97 on the outcome o of session.get
check_get(o) ==
    IF o.error # ""
    THEN [next |-> "return", is_broken |-> TRUE, info |-> ErrorDescription(o.error)]
    ELSE IF o.status >= 400
    THEN [next |-> "return", is_broken |-> TRUE, info |-> Description(o.status, "(GET)")]
    ELSE [next |-> "return", is_broken |-> FALSE, info |-> Description(o.status, "(GET)")]

Request(method, url, o) ==
    [method |-> method, url |-> url, status |-> o.status, error |-> o.error]

\* line 149 and the call of check_link, line 150
BeginCheck ==
    /\ pc = "loop"
    /\ i <= total
    /\ out' = Append(out, Line("CHECK", i, total, links[i], <<>>))
    /\ reqs' = <<>>
    /\ pc' = "head"
    /\ UNCHANGED <<no_js, doc, link_set, raw_count, raw_href, links, total, i, is_broken,
                   info, broken_links, page, exit_status>>

Continue(r) ==
    /\ pc' = IF r.next = "get" THEN "get"
             ELSE IF r.next = "return" THEN "verdict"
             ELSE "check_raised"
    /\ IF r.next = "return"
       THEN is_broken' = r.is_broken /\ info' = r.info
       ELSE UNCHANGED <<is_broken, info>>

HeadProbe ==
    /\ pc = "head"
    /\ \E o \in Outcomes(Statuses) :
        /\ reqs' = Append(reqs, Request("HEAD", links[i], o))
        /\ Continue(check_head(o))
    /\ UNCHANGED <<no_js, doc, link_set, raw_count, raw_href, links, total, i,
                   broken_links, page, exit_status, out>>

GetFetch ==
    /\ pc = "get"
    /\ \E o \in Outcomes(Statuses) :
        /\ reqs' = Append(reqs, Request("GET", links[i], o))
        /\ Continue(check_get(o))
    /\ UNCHANGED <<no_js, doc, link_set, raw_count, raw_href, links, total, i,
                   broken_links, page, exit_status, out>>

(***************************************************************************)
(* main, lines 151-164                                                     *)
(***************************************************************************)
\* record without the test of is_broken
record_always(broken, link, b, text) == Append(broken, <<link, text>>)

\* broken_links after the verdict of link, lines 151-155
record(broken, link, b, text) ==
    IF b THEN Append(broken, <<link, text>>) ELSE broken

Verdict ==
    /\ pc = "verdict"
    /\ out' = Append(out, Line(IF is_broken THEN "BROKEN" ELSE "OK", 0, 0, <<>>, info))
    /\ broken_links' = record(broken_links, links[i], is_broken, info)
    /\ i' = i + 1
    /\ pc' = "loop"
    /\ UNCHANGED <<no_js, doc, link_set, raw_count, raw_href, links, total, is_broken,
                   info, reqs, page, exit_status>>

\* the itemized broken-link list, lines 161-164
Items(broken) ==
    IF broken = <<>> THEN <<>>
    ELSE <<Msg("BROKEN_HEADER")>>
         \o [k \in 1..Len(broken) |-> Line("ITEM", 0, 0, broken[k][1], broken[k][2])]

Summary ==
    /\ pc = "loop"
    /\ i > total
    /\ out' = out \o <<Msg("SUMMARY"),
                       Line("TOTAL", total, 0, <<>>, <<>>),
                       Line("BROKEN_COUNT", Len(broken_links), 0, <<>>, <<>>)>>
                  \o Items(broken_links)
    /\ pc' = "exit"
    /\ exit_status' = 0
    /\ UNCHANGED <<no_js, doc, link_set, raw_count, raw_href, links, total, i, is_broken,
                   info, broken_links, reqs, page>>

(***************************************************************************)
(* Specifications                                                          *)
(***************************************************************************)
Init ==
    /\ pc = "start"
    /\ no_js \in BOOLEAN
    /\ doc = <<>>
    /\ link_set = {}
    /\ raw_count = 0
    /\ raw_href = <<>>
    /\ links = <<>>
    /\ total = 0
    /\ i = 0
    /\ is_broken = FALSE
    /\ info = <<>>
    /\ broken_links = <<>>
    /\ reqs = <<>>
    /\ page = NoPage
    /\ exit_status = NoExit
    /\ out = <<>>

Next ==
    \/ FetchRaw
    \/ Render
    \/ ExtractAnchor(MainHrefs)
    \/ ExtractReturn
    \/ Traceback
    \/ NoLinks
    \/ StartChecks
    \/ BeginCheck
    \/ HeadProbe
    \/ GetFetch
    \/ Verdict
    \/ Summary

Spec == Init /\ [][Next]_vars

\* the sequential program takes its next step: each request returns or times
\* out, and the document has an end
FairSpec ==
    /\ Spec
    /\ WF_vars(FetchRaw)
    /\ WF_vars(Render)
    /\ WF_vars(ExtractReturn)
    /\ WF_vars(Traceback)
    /\ WF_vars(NoLinks)
    /\ WF_vars(StartChecks)
    /\ WF_vars(BeginCheck)
    /\ WF_vars(HeadProbe)
    /\ WF_vars(GetFetch)
    /\ WF_vars(Verdict)
    /\ WF_vars(Summary)

\* extract_links(html, url) called on a rendered page, for every document over Hrefs
InitExtract ==
    /\ pc = "extract"
    /\ no_js = FALSE
    /\ doc = <<>>
    /\ link_set = {}
    /\ raw_count = 0
    /\ raw_href = <<>>
    /\ links = <<>>
    /\ total = 0
    /\ i = 0
    /\ is_broken = FALSE
    /\ info = <<>>
    /\ broken_links = <<>>
    /\ reqs = <<>>
    /\ page = [kind |-> "rendered", status |-> 0, error |-> ""]
    /\ exit_status = NoExit
    /\ out = <<Msg("INFO_RENDER"), Msg("INFO_EXTRACT")>>

NextExtract ==
    \/ ExtractAnchor(Hrefs)
    \/ ExtractReturn

SpecExtract == InitExtract /\ [][NextExtract]_vars

(***************************************************************************)
(* Properties                                                              *)
(***************************************************************************)
Tagged(tags) == SelectSeq(out, LAMBDA l : l.tag \in tags)

CheckLines == Tagged({"CHECK"})

VerdictLines == Tagged({"OK", "BROKEN"})

SummaryPrinted == Tagged({"SUMMARY"}) # <<>>

\* the outcome of the k-th request of the current check_link call
OutcomeOf(k) == [status |-> reqs[k].status, error |-> reqs[k].error]

HeadRejected == reqs[1].error = "" /\ reqs[1].status \in {403, 405}

HeadFailed == reqs[1].error # ""

\* C1: when check_link returns after a HEAD that answered 403 or 405, a GET
\* for the same URL has been issued after the HEAD and the returned verdict
\* and description are those of the GET response.
C1_RejectedHeadDecidedByGet ==
    (pc = "verdict" /\ HeadRejected)
        => /\ Len(reqs) = 2
           /\ reqs[2].method = "GET"
           /\ reqs[2].url = reqs[1].url
           /\ is_broken = check_get(OutcomeOf(2)).is_broken
           /\ info = check_get(OutcomeOf(2)).info

Descriptions ==
    {<<"HTTP", " ">> \o Str(c) \o <<" ", m>> : c \in Statuses, m \in {"(HEAD)", "(GET)"}}
        \cup {<<"Error:", " ", m>> : m \in Messages}

\* C2: check_link never raises; whatever the HEAD and the GET answer (a
\* status code or a transport failure) it returns after at most two requests
\* with is_broken a boolean and the description a formatted string.
C2_CheckLinkNeverRaises ==
    /\ pc # "check_raised"
    /\ pc = "head" => reqs = <<>> /\ ENABLED HeadProbe
    /\ pc = "get" => Len(reqs) = 1 /\ ENABLED GetFetch
    /\ pc = "verdict" => is_broken \in BOOLEAN /\ info \in Descriptions

C2_Witness_BothRequestsFail ==
    /\ pc = "verdict"
    /\ Len(reqs) = 2
    /\ reqs[1].error = "timed out"
    /\ reqs[2].error = "connection refused"
    /\ info = <<"Error:", " ", "connection refused">>

BeginsExcluded(h) ==
    \/ (Len(h) >= 1 /\ h[1] = "#")
    \/ (Len(h) >= 2 /\ h[1] \in {"mailto", "tel", "javascript", "data"} /\ h[2] = ":")

\* C3: an anchor whose href begins with "#", "mailto:", "tel:", "javascript:"
\* or "data:" contributes no URL: every URL collected comes from an anchor
\* without such a prefix, and a document whose anchors all have such hrefs
\* yields the empty list.
C3_ExcludedPrefixesYieldNoLink ==
    pc \in {"extract", "extracted", "extract_raised"}
        => /\ \A u \in link_set :
                \E k \in 1..Len(doc) :
                    ~BeginsExcluded(doc[k]) /\ urljoin(BaseUrl, doc[k]).value = u
           /\ (\A k \in 1..Len(doc) : BeginsExcluded(doc[k]))
                => link_set = {} /\ (pc = "extracted" => links = <<>>)

C3_Witness_OnlyExcludedAnchors ==
    /\ pc = "extracted"
    /\ doc = <<<<"#", "x">>, <<"mailto", ":", "x">>>>
    /\ raw_count = 2
    /\ links = <<>>

Accepted(h) == ~is_http_url(h).raises /\ is_http_url(h).value

\* C4: the list returned by extract_links is in strictly ascending lexical
\* order (hence free of duplicates), holds exactly the collected URLs, and
\* the reported unique count is its length and at most the reported raw count.
C4_ReturnedListSortedAndUnique ==
    pc = "extracted"
        => /\ \A a, b \in 1..Len(links) : a < b => LexLess(links[a], links[b])
           /\ \A a, b \in 1..Len(links) : a # b => links[a] # links[b]
           /\ {links[k] : k \in 1..Len(links)} = link_set
           /\ out[Len(out)].tag = "INFO_UNIQUE"
           /\ out[Len(out)].n = Len(links)
           /\ out[Len(out) - 1].tag = "INFO_RAW"
           /\ out[Len(out)].n <= out[Len(out) - 1].n

C4_Witness_TwoHrefsOneUrl ==
    /\ pc = "extracted"
    /\ Len(doc) = 2
    /\ doc[1] # doc[2]
    /\ Accepted(doc[1])
    /\ Accepted(doc[2])
    /\ Len(links) = 1
    /\ out[Len(out) - 1].n = 2

RECURSIVE BrokenOf(_, _)
\* the (link, description) pairs of the BROKEN verdict lines, in print order
BrokenOf(checks, verdicts) ==
    IF verdicts = <<>> THEN <<>>
    ELSE (IF verdicts[1].tag = "BROKEN"
          THEN <<<<checks[1].url, verdicts[1].text>>>>
          ELSE <<>>)
         \o BrokenOf(Tail(checks), Tail(verdicts))

\* C5: broken_links holds exactly the links checked so far whose verdict was
\* broken, in check order and each once; the broken count of the summary is
\* its length, at most the number of links checked, at most total.
C5_BrokenListMatchesVerdicts ==
    pc \in {"loop", "head", "get", "verdict", "exit"}
        => /\ broken_links = BrokenOf(CheckLines, VerdictLines)
           /\ \A a, b \in 1..Len(broken_links) :
                a < b => LexLess(broken_links[a][1], broken_links[b][1])
           /\ Len(broken_links) <= Len(VerdictLines)
           /\ Len(VerdictLines) <= total
           /\ \A k \in 1..Len(out) :
                out[k].tag = "BROKEN_COUNT"
                    => out[k].n = Len(Tagged({"BROKEN"})) /\ out[k].n <= out[k - 1].n

C5_Witness_OneOfTwoBroken ==
    /\ pc = "exit"
    /\ SummaryPrinted
    /\ total = 2
    /\ Len(broken_links) = 1
    /\ broken_links[1][1] = links[2]

PageFailed ==
    IF no_js
    THEN page.error # "" \/ page.status < 200 \/ page.status > 299
    ELSE page.kind = "render_failed"

\* C6: the exit status is non-zero exactly when obtaining the page HTML
\* failed (transport failure or non-2xx status of the raw fetch, render
\* failure otherwise), and such a run extracts nothing, checks nothing and
\* prints no summary.
C6_NonZeroExitIffPageFailed ==
    pc = "exit"
        => /\ exit_status # 0 <=> PageFailed
           /\ exit_status # 0
                => Tagged({"INFO_EXTRACT", "INFO_RAW", "CHECK", "SUMMARY"}) = <<>>

\* the CHECK, verdict and SUMMARY lines printed so far, in print order
Progress == Tagged({"CHECK", "OK", "BROKEN", "SUMMARY"})

C7_Order ==
    /\ Len(CheckLines) <= Len(links)
    /\ \A k \in 1..Len(CheckLines) :
        /\ CheckLines[k].url = links[k]
        /\ CheckLines[k].n = k
        /\ CheckLines[k].m = Len(links)
    /\ \A k \in 1..Len(Progress) :
        /\ (k % 2 = 1 /\ k <= 2 * Len(links)) => Progress[k].tag = "CHECK"
        /\ (k % 2 = 0 /\ k <= 2 * Len(links)) => Progress[k].tag \in {"OK", "BROKEN"}
        /\ k > 2 * Len(links) => Progress[k].tag = "SUMMARY" /\ k = 2 * Len(links) + 1

\* C7: the links are checked once each, in the order of the sorted list, the
\* CHECK line of a link following the verdict line of the previous one; once
\* extraction has returned a non-empty list the summary is eventually
\* printed, after the verdict of the last link.
C7_EveryLinkCheckedThenSummary ==
    /\ []C7_Order
    /\ (pc = "extracted" /\ links # <<>>)
            ~> (SummaryPrinted /\ Len(VerdictLines) = Len(links) /\ pc = "exit")

C7_Witness_LoopSurvivesTransportFailure ==
    /\ SummaryPrinted
    /\ Len(links) = 2
    /\ Len(VerdictLines) = 2
    /\ VerdictLines[1].tag = "BROKEN"
    /\ VerdictLines[1].text[1] = "Error:"

Blank(h) == \A k \in 1..Len(h) : h[k] = " "

\* C8: an anchor whose href is empty or whitespace-only adds no URL: a
\* document whose anchors all have such hrefs leaves the collected set empty.
C8_BlankHrefRejected ==
    (pc \in {"extract", "extracted"} /\ \A k \in 1..Len(doc) : Blank(doc[k]))
        => link_set = {}

\* C9: when the HEAD fails at the transport level a GET is issued and
\* decides: status >= 400 is broken and status < 400 is not, both described
\* "HTTP <code> (GET)"; a failed GET is broken, described "Error: <message>".
C9_FailedHeadDecidedByGet ==
    (pc = "verdict" /\ HeadFailed)
        => /\ Len(reqs) = 2
           /\ reqs[2].method = "GET"
           /\ reqs[2].url = reqs[1].url
           /\ reqs[2].error # ""
                => is_broken /\ info = <<"Error:", " ", reqs[2].error>>
           /\ reqs[2].error = ""
                => /\ is_broken <=> reqs[2].status >= 400
                   /\ info = <<"HTTP", " ">> \o Str(reqs[2].status) \o <<" ", "(GET)">>

C9_Witness_HeadFailsGetAnswers ==
    /\ pc = "verdict"
    /\ HeadFailed
    /\ Len(reqs) = 2
    /\ reqs[2].status = 400
    /\ is_broken
    /\ info = <<"HTTP", " ", "4", "0", "0", " ", "(GET)">>

\* C10: a check_link call issues one HEAD, then at most one GET, the GET
\* only after a HEAD that failed at the transport level or answered 403 or
\* 405; any other HEAD status gives the verdict by itself, described
\* "HTTP <code> (HEAD)", broken exactly when the status is >= 400.
C10_OneHeadAtMostOneGet ==
    /\ pc = "head" => reqs = <<>>
    /\ pc = "get" => Len(reqs) = 1
    /\ pc \in {"get", "verdict"}
        => /\ Len(reqs) \in {1, 2}
           /\ reqs[1].method = "HEAD"
           /\ reqs[1].url = links[i]
           /\ Len(reqs) = 2 => reqs[2].method = "GET" /\ (HeadFailed \/ HeadRejected)
    /\ (pc = "verdict" /\ ~HeadFailed /\ ~HeadRejected)
        => /\ Len(reqs) = 1
           /\ is_broken <=> reqs[1].status >= 400
           /\ info = <<"HTTP", " ">> \o Str(reqs[1].status) \o <<" ", "(HEAD)">>

C10_Witness_HeadAloneDecides ==
    /\ pc = "verdict"
    /\ Len(reqs) = 1
    /\ reqs[1].status = 400
    /\ is_broken
    /\ info = <<"HTTP", " ", "4", "0", "0", " ", "(HEAD)">>

====
